---- MODULE Spec2Model ----
(***************************************************************************)
(* A model of controller.py: the joystick reader thread (JoystickThread),  *)
(* the fixed-rate control loop (controller), the deadzone mapping and the  *)
(* joystick discovery (_default_joystick).                                 *)
(*                                                                         *)
(* Numbers.  The program computes with Python floats.  The model computes  *)
(* with exact rationals <<n, d>> (d > 0, lowest terms): comparisons, min,  *)
(* max and int() are those of the real numbers.  Rounding of the IEEE      *)
(* doubles is not modelled.                                                *)
(***************************************************************************)
EXTENDS Integers, Sequences, FiniteSets, TLC

VARIABLES
    \* ---- JoystickThread (reader thread) ----
    axes,            \* self.axes: axis code -> box, <<>> for [None] and <<v>> for [v]
    _pending,        \* self._pending: dict, as a sequence of <<code, value>> in insertion order
    _pendingValues,  \* self._pendingValues: the attribute line 140 assigns
    jpc,             \* position of run(): "read", "commit" or "dead"
    jidx,            \* position of the for loop of lines 138-139 in _pending
    jout,            \* what onKey() printed last
    \* ---- controller (control-loop thread) ----
    cpc,             \* position of controller()
    pitch_limits,    \* parameter pitch_limits
    command_pitch,   \* local command_pitch, <<>> or <<rational>>
    command_yaw_speed, \* local command_yaw_speed, <<>> or <<integer>>
    current_yaw,     \* local current_yaw, <<>> or <<integer>>
    s,               \* state(): local s, <<>> or <<mapping>>
    sidx,            \* state(): position of the for loop of line 147 in self.axes
    \* ---- transport (GimbalPort), as the controller sees it ----
    connected,       \* whether the link is up (waitConnect returns only then)
    calls,           \* the transport calls made since the last status line
    \* ---- observers ----
    published,       \* the boxes as they were when the last synchronization marker was done
    computed_yaw_speed, \* the value line 56 computed in this tick, <<>> or <<integer>>
    \* ---- a call of a function on its own ----
    arg,             \* its arguments
    ret              \* <<>> until it returns, then <<its result>>

jvars == <<axes, _pending, _pendingValues, jpc, jidx, jout, published>>
cvars == <<cpc, pitch_limits, command_pitch, command_yaw_speed, current_yaw,
           s, sidx, connected, calls, computed_yaw_speed>>
fvars == <<arg, ret>>
vars == <<jvars, cvars, fvars>>

\* Python's None, and the content of a box that holds None
None == "None"
NoneBox == <<>>
\* A local variable or an attribute is <<>> while it is not assigned and <<v>>
\* when it holds v.
Unbound == <<>>

(***************************************************************************)
(* Exact rational arithmetic.                                              *)
(***************************************************************************)
Abs(n) == IF n < 0 THEN -n ELSE n

\* Euclid's algorithm on a pair of naturals
GCDOf[p \in Nat \X Nat] == IF p[2] = 0 THEN p[1] ELSE GCDOf[<<p[2], p[1] % p[2]>>]
GCD(a, b) == GCDOf[<<a, b>>]

\* the rational n/d (d # 0) in lowest terms with a positive denominator
RatOf[p \in Int \X Int] ==
    LET g == GCD(Abs(p[1]), Abs(p[2]))
        sg == IF p[2] < 0 THEN -1 ELSE 1
    IN <<(sg * p[1]) \div g, (sg * p[2]) \div g>>
Rat(n, d) == RatOf[<<n, d>>]

R(n) == <<n, 1>>
\* The operations are functions of the pair of their operands, so that an
\* operand is evaluated once.
RatPairs == (Int \X Int) \X (Int \X Int)
RAddOf[p \in RatPairs] == Rat(p[1][1] * p[2][2] + p[2][1] * p[1][2], p[1][2] * p[2][2])
RSubOf[p \in RatPairs] == Rat(p[1][1] * p[2][2] - p[2][1] * p[1][2], p[1][2] * p[2][2])
RMulOf[p \in RatPairs] == Rat(p[1][1] * p[2][1], p[1][2] * p[2][2])
RDivOf[p \in RatPairs] == Rat(p[1][1] * p[2][2], p[1][2] * p[2][1])
RAdd(a, b) == RAddOf[<<a, b>>]
RSub(a, b) == RSubOf[<<a, b>>]
RMul(a, b) == RMulOf[<<a, b>>]
RDiv(a, b) == RDivOf[<<a, b>>]
RNeg(a) == <<-a[1], a[2]>>
RLt(a, b) == a[1] * b[2] < b[1] * a[2]
RLe(a, b) == a[1] * b[2] <= b[1] * a[2]
RAbs(a) == <<Abs(a[1]), a[2]>>
\* Python's min(a, b) and max(a, b): the first argument unless the second is smaller/larger
RMin(a, b) == IF RLt(b, a) THEN b ELSE a
RMax(a, b) == IF RLt(a, b) THEN b ELSE a
\* Python's int(x): truncation toward zero
Trunc(a) == IF a[1] >= 0 THEN a[1] \div a[2] ELSE -((-a[1]) \div a[2])

(***************************************************************************)
(* deadzone(v, width=0.3), lines 93-98.                                    *)
(***************************************************************************)
DefaultWidth == Rat(3, 10)

deadzone(v, width) ==
    IF RLt(RDiv(width, R(2)), v)
    THEN RDiv(RSub(v, RDiv(width, R(2))), RSub(R(1), width))
    ELSE IF RLt(v, RNeg(RDiv(width, R(2))))
    THEN RDiv(RAdd(v, RDiv(width, R(2))), RSub(R(1), width))
    ELSE R(0)

(***************************************************************************)
(* The joystick device.  An axis code is written as its name in            *)
(* evdev.ecodes.ABS.  Every axis of the device reports the range           *)
(* [-AxisMax, AxisMax].                                                    *)
(***************************************************************************)
AxisMax == 10

\* self.device.capabilities().get(evdev.ecodes.EV_ABS, []): the axes in the
\* order the device lists them, each with its AbsInfo
Capabilities == <<"ABS_X", "ABS_RX", "ABS_RY">>
AbsInfo(axis) == [min |-> -AxisMax, max |-> AxisMax]

\* evdev.ecodes.ABS[axis].lower().split('_')[1], line 150
AxisKey(axis) ==
    CASE axis = "ABS_X" -> "x"
      [] axis = "ABS_Y" -> "y"
      [] axis = "ABS_RX" -> "rx"
      [] axis = "ABS_RY" -> "ry"

\* The events the device delivers: only the two sticks' axes move, the yaw
\* stick to full left and full right, the pitch stick to full down, a position
\* inside the dead band and full up.
EventAxes == {"ABS_RX", "ABS_RY"}
EventValues(axis) ==
    LET info == AbsInfo(axis)
    IN IF axis = "ABS_RX"
       THEN {info.min, info.max}
       ELSE {info.min, 1, info.max}
KeyCodes == {"BTN_A"}

\* ---- Python dicts kept in insertion order, as sequences of <<key, value>> ----
DictKeys(d) == {d[i][1] : i \in 1..Len(d)}
DictGet(d, k) == LET i == CHOOSE i \in 1..Len(d) : d[i][1] = k IN d[i][2]
DictSet(d, k, v) ==
    IF k \in DictKeys(d)
    THEN [i \in 1..Len(d) |-> IF d[i][1] = k THEN <<k, v>> ELSE d[i]]
    ELSE Append(d, <<k, v>>)

EmptyMap == [k \in {} |-> 0]

(***************************************************************************)
(* JoystickThread.__init__, lines 111-119.                                 *)
(***************************************************************************)
JoystickInitZeroed ==
    /\ axes = [a \in {Capabilities[i] : i \in 1..Len(Capabilities)} |-> <<0>>]
    /\ _pending = <<>>
    /\ _pendingValues = Unbound
    /\ jpc = "read"
    /\ jidx = 0
    /\ jout = None
    /\ published = [a \in {Capabilities[i] : i \in 1..Len(Capabilities)} |-> <<0>>]
JoystickInit ==
    /\ axes = [a \in {Capabilities[i] : i \in 1..Len(Capabilities)} |-> NoneBox]
    /\ _pending = <<>>
    /\ _pendingValues = Unbound
    /\ jpc = "read"
    /\ jidx = 0
    /\ jout = None
    /\ published = [a \in {Capabilities[i] : i \in 1..Len(Capabilities)} |-> NoneBox]

(***************************************************************************)
(* JoystickThread.state, lines 145-151.  Reading one box is one step of    *)
(* the calling thread; the reader thread may run between two of them.      *)
(***************************************************************************)
\* lines 149-150: the normalised value of a raw reading
NormaliseNoCentre(axis, raw) ==
    LET info == AbsInfo(axis)
    IN RMul(RDiv(R(raw - info.min), R(info.max - info.min)), R(2))
Normalise(axis, raw) ==
    LET info == AbsInfo(axis)
        mapped == RDiv(R(raw - info.min), R(info.max - info.min))
    IN RMul(RSub(mapped, Rat(1, 2)), R(2))

\* one iteration of the loop of line 147 on the boxes b
StateStep(b, sofar, axis) ==
    IF b[axis] # NoneBox
    THEN (AxisKey(axis) :> Normalise(axis, b[axis][1])) @@ sofar
    ELSE sofar

\* state() run to the end on the boxes b without interruption, n axes read
RECURSIVE StateOf(_, _)
StateOf(b, n) ==
    IF n = 0 THEN EmptyMap ELSE StateStep(b, StateOf(b, n - 1), Capabilities[n])

\* controls.get(key, 0)
GetDefaultOne(m, key) == IF key \in DOMAIN m THEN m[key] ELSE R(1)
Get(m, key) == IF key \in DOMAIN m THEN m[key] ELSE R(0)

(***************************************************************************)
(* JoystickThread.run, lines 130-140: one action per event read from       *)
(* read_loop(), and one per iteration of the commit loop.                  *)
(***************************************************************************)
AbsEventDirect(code, value) ==
    /\ jpc = "read"
    /\ _pending' = DictSet(_pending, code, value)
    /\ axes' = [axes EXCEPT ![code] = <<value>>]
    /\ UNCHANGED <<_pendingValues, jpc, jidx, jout, published, cvars, fvars>>
AbsEvent(code, value) ==
    /\ jpc = "read"
    /\ _pending' = DictSet(_pending, code, value)
    /\ UNCHANGED <<axes, _pendingValues, jpc, jidx, jout, published, cvars, fvars>>

KeyEventDropsPending(key) ==
    /\ jpc = "read"
    /\ jout' = key
    /\ _pending' = <<>>
    /\ UNCHANGED <<axes, _pendingValues, jpc, jidx, published, cvars, fvars>>
KeyEvent(key) ==
    /\ jpc = "read"
    /\ jout' = key
    /\ UNCHANGED <<axes, _pending, _pendingValues, jpc, jidx, published, cvars, fvars>>

SynEventUnderLock ==
    /\ jpc = "read"
    /\ cpc # "state"
    /\ IF Len(_pending) = 0
       THEN /\ _pendingValues' = <<EmptyMap>>
            /\ UNCHANGED <<jpc, jidx>>
       ELSE /\ jpc' = "commit"
            /\ jidx' = 1
            /\ UNCHANGED _pendingValues
    /\ UNCHANGED <<axes, _pending, jout, published, cvars, fvars>>
SynEvent ==
    /\ jpc = "read"
    /\ IF Len(_pending) = 0
       THEN /\ _pendingValues' = <<EmptyMap>>
            /\ UNCHANGED <<jpc, jidx>>
       ELSE /\ jpc' = "commit"
            /\ jidx' = 1
            /\ UNCHANGED _pendingValues
    /\ UNCHANGED <<axes, _pending, jout, published, cvars, fvars>>

CommitStep ==
    /\ jpc = "commit"
    /\ LET axis == _pending[jidx][1]
           value == _pending[jidx][2]
       IN IF axis \notin DOMAIN axes
          THEN \* KeyError at line 139: the thread ends
               /\ jpc' = "dead"
               /\ UNCHANGED <<axes, _pendingValues, jidx, published>>
          ELSE /\ axes' = [axes EXCEPT ![axis] = <<value>>]
               /\ IF jidx < Len(_pending)
                  THEN /\ jidx' = jidx + 1
                       /\ UNCHANGED <<jpc, _pendingValues, published>>
                  ELSE /\ _pendingValues' = <<EmptyMap>>
                       /\ jpc' = "read"
                       /\ jidx' = 0
                       /\ published' = axes'
    /\ UNCHANGED <<_pending, jout, cvars, fvars>>

(***************************************************************************)
(* controller(gimbal, js, hz, yaw_limits, pitch_limits), lines 28-90.      *)
(***************************************************************************)
hz == 75
YawLo == 450
YawHi == 3800
PitchLo == 1000
PitchHi == 2040
yaw_limits == <<YawLo, YawHi>>

\* The pitch limits of the runs checked: a narrow band above PitchLo, and the
\* band of one point.
PitchSpan == 6
PitchLimitChoices == {<<PitchLo, PitchLo + PitchSpan>>, <<PitchLo, PitchLo>>}

\* The encoder values getParam(0x2c) may return: at and beyond each yaw limit,
\* and between the limits.
EncoderMargin == 1
EncoderValues ==
    (YawLo - EncoderMargin .. YawLo)
        \cup {(YawLo + YawHi) \div 2}
        \cup (YawHi .. YawHi + EncoderMargin)

\* line 56: int(pow(deadzone(controls.get('rx', 0)), 3.0) * -300)
YawSpeed(c) ==
    LET d == deadzone(Get(c, "rx"), DefaultWidth)
    IN Trunc(RMul(RMul(RMul(d, d), d), R(-300)))

\* line 61: deadzone(controls.get('ry', 0)) * 200.0
PitchSpeed(c) == RMul(deadzone(Get(c, "ry"), DefaultWidth), R(200))

\* lines 62-63
ClampLowerOnly(limits, x) == RMax(R(limits[1]), x)
Clamp(limits, x) == RMin(R(limits[2]), RMax(R(limits[1]), x))
PitchStepUnscaled(limits, pitch, c) ==
    Clamp(limits, RAdd(pitch, PitchSpeed(c)))
PitchStepReversed(limits, pitch, c) ==
    Clamp(limits, RSub(pitch, RDiv(PitchSpeed(c), R(hz))))
PitchStep(limits, pitch, c) ==
    Clamp(limits, RAdd(pitch, RDiv(PitchSpeed(c), R(hz))))

\* lines 79-82: the yaw speed after the interlock
InterlockLowerOnly(yaw, speed) ==
    IF yaw <= yaw_limits[1] /\ speed < 0 THEN 0 ELSE speed
InterlockAnyDirection(yaw, speed) ==
    IF yaw <= yaw_limits[1] \/ yaw >= yaw_limits[2] THEN 0 ELSE speed
Interlock(yaw, speed) ==
    LET s1 == IF yaw <= yaw_limits[1] /\ speed < 0 THEN 0 ELSE speed
    IN IF yaw >= yaw_limits[2] /\ s1 > 0 THEN 0 ELSE s1

\* A transport call as the log keeps it: number and target are <<>> or <<n>>,
\* value is the tuple of the integers written or returned (True is 1).
Call(op, number, target, value) ==
    [op |-> op, number |-> number, target |-> target, value |-> value, raised |-> FALSE]
\* a transport call that raised
Raised(op) ==
    [op |-> op, number |-> <<>>, target |-> <<>>, value |-> <<>>, raised |-> TRUE]

ControllerInitWith(limits) ==
    /\ cpc = "waitConnect"
    /\ pitch_limits = limits
    /\ command_pitch = Unbound
    /\ command_yaw_speed = Unbound
    /\ current_yaw = Unbound
    /\ s = Unbound
    /\ sidx = 0
    /\ connected = FALSE
    /\ calls = <<>>
    /\ computed_yaw_speed = Unbound

ControllerInit == \E limits \in PitchLimitChoices : ControllerInitWith(limits)

\* the gimbal is powered on and the link comes up
LinkUp ==
    /\ ~connected
    /\ connected' = TRUE
    /\ UNCHANGED <<jvars, fvars, cpc, pitch_limits, command_pitch, command_yaw_speed,
                   current_yaw, s, sidx, calls, computed_yaw_speed>>

\* a transport call that returns: the call is logged and the controller moves on
Returns(call, next) ==
    /\ calls' = Append(calls, call)
    /\ cpc' = next
    /\ UNCHANGED <<jvars, fvars, pitch_limits, connected, s, sidx, command_pitch,
                   computed_yaw_speed>>

\* line 32: waitConnect() returns only when the link is up
WaitConnectUnchecked ==
    /\ cpc = "waitConnect"
    /\ Returns(Call("waitConnect", <<>>, <<>>, <<>>), "setFollow")
    /\ UNCHANGED <<command_yaw_speed, current_yaw>>
WaitConnect ==
    /\ cpc = "waitConnect"
    /\ connected
    /\ Returns(Call("waitConnect", <<>>, <<>>, <<>>), "setFollow")
    /\ UNCHANGED <<command_yaw_speed, current_yaw>>

\* line 38
SetFollow ==
    /\ cpc = "setFollow"
    /\ Returns(Call("setVectorParam", <<99>>, <<>>, <<0, 1, 1>>), "zeroVelocity")
    /\ UNCHANGED <<command_yaw_speed, current_yaw>>

\* line 41
ZeroVelocity ==
    /\ cpc = "zeroVelocity"
    /\ Returns(Call("setVectorParam", <<3>>, <<>>, <<0, 0, 0>>), "setMotors")
    /\ UNCHANGED <<command_yaw_speed, current_yaw>>

\* line 44
SetMotors ==
    /\ cpc = "setMotors"
    /\ Returns(Call("setMotors", <<>>, <<>>, <<1>>), "initPitch")
    /\ UNCHANGED <<command_yaw_speed, current_yaw>>

\* line 49
InitPitch ==
    /\ cpc = "initPitch"
    /\ command_pitch' = <<RDiv(R(pitch_limits[1] + pitch_limits[2]), R(2))>>
    /\ cpc' = "sleep"
    /\ UNCHANGED <<jvars, fvars, pitch_limits, command_yaw_speed, current_yaw,
                   s, sidx, connected, calls, computed_yaw_speed>>

\* lines 52-53 and 146: the tick begins, the controller sleeps and calls js.state()
Sleep ==
    /\ cpc = "sleep"
    /\ cpc' = "state"
    /\ s' = <<EmptyMap>>
    /\ sidx' = 1
    /\ UNCHANGED <<jvars, fvars, pitch_limits, command_pitch, command_yaw_speed,
                   current_yaw, connected, calls, computed_yaw_speed>>

\* lines 147-150: one iteration of state()'s loop, reading one box
StateRead ==
    /\ cpc = "state"
    /\ sidx <= Len(Capabilities)
    /\ s' = <<StateStep(axes, s[1], Capabilities[sidx])>>
    /\ sidx' = sidx + 1
    /\ UNCHANGED <<jvars, fvars, cpc, pitch_limits, command_pitch, command_yaw_speed,
                   current_yaw, connected, calls, computed_yaw_speed>>

\* lines 151 and 53-63: state() returns, the speeds and the pitch target are
\* computed.  controls is read on lines 56 and 61 only.
Compute ==
    /\ cpc = "state"
    /\ sidx > Len(Capabilities)
    /\ LET controls == s[1]
       IN /\ command_yaw_speed' = <<YawSpeed(controls)>>
          /\ computed_yaw_speed' = <<YawSpeed(controls)>>
          /\ command_pitch' = <<PitchStep(pitch_limits, command_pitch[1], controls)>>
    /\ s' = Unbound
    /\ sidx' = 0
    /\ cpc' = "send"
    /\ UNCHANGED <<jvars, fvars, pitch_limits, current_yaw, connected, calls>>

\* lines 70-71: Packet(target=1, command=0x01, data=...); number holds the command
SendSkipped ==
    /\ cpc = "send"
    /\ cpc' = "getParam"
    /\ UNCHANGED <<jvars, fvars, pitch_limits, connected, s, sidx, command_pitch,
                   computed_yaw_speed, calls, command_yaw_speed, current_yaw>>
Send ==
    /\ cpc = "send"
    /\ Returns(Call("send", <<1>>, <<1>>, <<Trunc(command_pitch[1]), 0, 0, 1>>), "getParam")
    /\ UNCHANGED <<command_yaw_speed, current_yaw>>

\* line 76
GetParam ==
    /\ cpc = "getParam"
    /\ \E yaw \in EncoderValues :
          /\ current_yaw' = <<yaw>>
          /\ Returns(Call("getParam", <<44>>, <<0>>, <<yaw>>), "setParam")
    /\ UNCHANGED command_yaw_speed

\* lines 79-85
SetParam ==
    /\ cpc = "setParam"
    /\ command_yaw_speed' = <<Interlock(current_yaw[1], command_yaw_speed[1])>>
    /\ Returns(Call("setParam", <<3>>, <<0>>, command_yaw_speed'), "print")
    /\ UNCHANGED current_yaw

\* lines 88-90: the status line; the tick ends.  command_yaw_speed and
\* current_yaw are not read again before lines 56 and 76 assign them anew.
PrintStatus ==
    /\ cpc = "print"
    /\ cpc' = "sleep"
    /\ command_yaw_speed' = Unbound
    /\ current_yaw' = Unbound
    /\ computed_yaw_speed' = Unbound
    /\ calls' = <<>>
    /\ UNCHANGED <<jvars, fvars, pitch_limits, command_pitch, s, sidx, connected>>

\* A transport call raises.  controller() catches nothing: the exception leaves
\* it, and its frame with every local is gone.
TransportPcs ==
    {"waitConnect", "setFollow", "zeroVelocity", "setMotors", "send", "getParam", "setParam"}
OpAt(pc) ==
    CASE pc = "waitConnect" -> "waitConnect"
      [] pc \in {"setFollow", "zeroVelocity"} -> "setVectorParam"
      [] pc = "setMotors" -> "setMotors"
      [] pc = "send" -> "send"
      [] pc = "getParam" -> "getParam"
      [] pc = "setParam" -> "setParam"

\* where controller() is after a call made at pc raised: nothing catches it
AfterFailureRetry(pc) == pc
AfterFailure(pc) == "raised"

TransportFailure ==
    /\ cpc \in TransportPcs
    /\ calls' = Append(calls, Raised(OpAt(cpc)))
    /\ cpc' = AfterFailure(cpc)
    /\ command_pitch' = Unbound
    /\ command_yaw_speed' = Unbound
    /\ current_yaw' = Unbound
    /\ computed_yaw_speed' = Unbound
    /\ UNCHANGED <<jvars, fvars, pitch_limits, s, sidx, connected>>

(***************************************************************************)
(* The program: main() starts the reader thread and runs controller().     *)
(***************************************************************************)
NoCall ==
    /\ arg = Unbound
    /\ ret = Unbound

Init ==
    /\ JoystickInit
    /\ ControllerInit
    /\ NoCall

\* the next event of self.device.read_loop()
NextAbsEvent == \E code \in EventAxes : \E value \in EventValues(code) : AbsEvent(code, value)
NextKeyEvent == \E key \in KeyCodes : KeyEvent(key)

Reader ==
    \/ NextAbsEvent
    \/ NextKeyEvent
    \/ SynEvent
    \/ CommitStep

Controller ==
    \/ WaitConnect
    \/ SetFollow
    \/ ZeroVelocity
    \/ SetMotors
    \/ InitPitch
    \/ Sleep
    \/ StateRead
    \/ Compute
    \/ Send
    \/ GetParam
    \/ SetParam
    \/ PrintStatus

Next ==
    \/ Reader
    \/ Controller
    \/ LinkUp
    \/ TransportFailure

Spec == Init /\ [][Next]_vars

(***************************************************************************)
(* deadzone() called on its own: v on a grid of [-1, 1], width on a grid   *)
(* of (0, 1).                                                              *)
(***************************************************************************)
GridDen == 20
WidthDen == 10

DeadzoneInputs ==
    {[v |-> Rat(i, GridDen), width |-> Rat(j, WidthDen)] :
        i \in -GridDen..GridDen, j \in 1..(WidthDen - 1)}

InitDeadzone ==
    /\ JoystickInit
    /\ ControllerInitWith(<<PitchLo, PitchHi>>)
    /\ arg \in DeadzoneInputs
    /\ ret = Unbound

CallDeadzone ==
    /\ ret = Unbound
    /\ ret' = <<deadzone(arg.v, arg.width)>>
    /\ UNCHANGED <<jvars, cvars, arg>>

SpecDeadzone == InitDeadzone /\ [][CallDeadzone]_vars

(***************************************************************************)
(* _default_joystick(), lines 121-128, called on its own.  A device path   *)
(* is written as its rank in the order sorted() gives the paths.           *)
(***************************************************************************)
MaxDevices == 3
AbsAxes == {"ABS_X", "ABS_Y"}

\* sorted(), as an insertion sort
RECURSIVE Insert(_, _)
Insert(x, sq) ==
    IF sq = <<>> THEN <<x>>
    ELSE IF x <= Head(sq) THEN <<x>> \o sq
    ELSE <<Head(sq)>> \o Insert(x, Tail(sq))

RECURSIVE sorted(_)
sorted(sq) == IF sq = <<>> THEN <<>> ELSE Insert(Head(sq), sorted(Tail(sq)))

\* lines 123-128: the loop over the device paths fns; caps[fn] is
\* device.capabilities().get(evdev.ecodes.EV_ABS, []) of the device at fn
RECURSIVE FirstWithAbsX(_, _)
FirstWithAbsX(fns, caps) ==
    IF fns = <<>> THEN [raised |-> "IOError", device |-> 0]
    ELSE IF \E axis \in caps[Head(fns)] : axis = "ABS_X"
    THEN [raised |-> None, device |-> Head(fns)]
    ELSE FirstWithAbsX(Tail(fns), caps)

\* evdev.list_devices() returned listed
DefaultJoystickUnsorted(listed, caps) == FirstWithAbsX(listed, caps)
_default_joystick(listed, caps) == FirstWithAbsX(sorted(listed), caps)

\* the orders in which list_devices() may list the paths 1..n
Listings(n) ==
    {sq \in [1..n -> 1..n] : \A i, j \in 1..n : i # j => sq[i] # sq[j]}

DiscoveryInputs ==
    UNION {{[listed |-> l, caps |-> c] : l \in Listings(n), c \in [1..n -> SUBSET AbsAxes]} :
              n \in 0..MaxDevices}

InitDiscovery ==
    /\ JoystickInit
    /\ ControllerInitWith(<<PitchLo, PitchHi>>)
    /\ arg \in DiscoveryInputs
    /\ ret = Unbound

CallDefaultJoystick ==
    /\ ret = Unbound
    /\ ret' = <<_default_joystick(arg.listed, arg.caps)>>
    /\ UNCHANGED <<jvars, cvars, arg>>

SpecDiscovery == InitDiscovery /\ [][CallDefaultJoystick]_vars

(***************************************************************************)
(* The pitch stick held up: the reader has published one upward position   *)
(* of the pitch stick and the device delivers nothing more; no transport   *)
(* call raises; pitch_limits has its default.  The control loop keeps      *)
(* running (time.sleep returns, the transport answers).                    *)
(***************************************************************************)
HoldValues == {AxisMax \div 2, AxisMax}

JoystickHolds(value) ==
    /\ axes = [a \in {Capabilities[i] : i \in 1..Len(Capabilities)} |->
                  IF a = "ABS_RY" THEN <<value>> ELSE NoneBox]
    /\ published = axes
    /\ _pending = <<<<"ABS_RY", value>>>>
    /\ _pendingValues = <<EmptyMap>>
    /\ jpc = "read"
    /\ jidx = 0
    /\ jout = None

InitHold ==
    /\ \E value \in HoldValues : JoystickHolds(value)
    /\ ControllerInitWith(<<PitchLo, PitchHi>>)
    /\ NoCall

NextHold ==
    \/ Controller
    \/ LinkUp

SpecHold == InitHold /\ [][NextHold]_vars /\ WF_vars(NextHold)

(***************************************************************************)
(* The reader thread on its own, with a device that also delivers          *)
(* absolute-axis events whose code capabilities() did not list.            *)
(***************************************************************************)
UnlistedAxes == {"ABS_Y"}

NextUnlistedAbsEvent ==
    \E code \in UnlistedAxes : AbsEvent(code, AbsInfo(code).max)

NextMalformed ==
    \/ NextUnlistedAbsEvent
    \/ NextAbsEvent
    \/ SynEvent
    \/ CommitStep

SpecMalformed == Init /\ [][NextMalformed]_vars

(***************************************************************************)
(* The pitch integration of lines 49 and 61-63 on its own: the loop runs   *)
(* with a snapshot whose pitch value stays the same.  ret holds the        *)
(* running command_pitch, its value before the last tick, the number of    *)
(* ticks done and whether max() or min() of lines 62-63 ever changed the   *)
(* sum.                                                                    *)
(***************************************************************************)
MaxTicks == 80

PitchRunInputs ==
    {[limits |-> l, ry |-> Rat(i, GridDen)] :
        l \in PitchLimitChoices \cup {<<PitchLo, PitchHi>>}, i \in -GridDen..GridDen}

InitPitchRun ==
    /\ JoystickInit
    /\ ControllerInitWith(<<PitchLo, PitchHi>>)
    /\ arg \in PitchRunInputs
    /\ ret = << [pitch |-> RDiv(R(arg.limits[1] + arg.limits[2]), R(2)),
                 prev |-> RDiv(R(arg.limits[1] + arg.limits[2]), R(2)),
                 ticks |-> 0, clamped |-> FALSE] >>

PitchTick ==
    /\ ret[1].ticks < MaxTicks
    /\ LET controls == "ry" :> arg.ry
           sum == RAdd(ret[1].pitch, RDiv(PitchSpeed(controls), R(hz)))
       IN ret' = << [pitch |-> PitchStep(arg.limits, ret[1].pitch, controls),
                     prev |-> ret[1].pitch,
                     ticks |-> ret[1].ticks + 1,
                     clamped |-> \/ ret[1].clamped
                                 \/ RLt(sum, R(arg.limits[1]))
                                 \/ RLt(R(arg.limits[2]), sum)] >>
    /\ UNCHANGED <<jvars, cvars, arg>>

SpecPitchRun == InitPitchRun /\ [][PitchTick]_vars

(***************************************************************************)
(* The sticks at rest: the reader has published one position of each       *)
(* stick, or none, and the device delivers nothing more; no transport      *)
(* call raises; pitch_limits has its default.                              *)
(***************************************************************************)
StillBoxes == {NoneBox, <<0>>, <<1>>, <<-1>>, <<AxisMax>>}

JoystickStill(rx, ry) ==
    /\ axes = [a \in {Capabilities[i] : i \in 1..Len(Capabilities)} |->
                  IF a = "ABS_RX" THEN rx ELSE IF a = "ABS_RY" THEN ry ELSE NoneBox]
    /\ published = axes
    /\ _pending = (IF rx = NoneBox THEN <<>> ELSE << <<"ABS_RX", rx[1]>> >>)
                  \o (IF ry = NoneBox THEN <<>> ELSE << <<"ABS_RY", ry[1]>> >>)
    /\ _pendingValues = IF rx = NoneBox /\ ry = NoneBox THEN Unbound ELSE <<EmptyMap>>
    /\ jpc = "read"
    /\ jidx = 0
    /\ jout = None

InitStill ==
    /\ \E rx \in StillBoxes, ry \in StillBoxes : JoystickStill(rx, ry)
    /\ ControllerInitWith(<<PitchLo, PitchHi>>)
    /\ NoCall

NextStill ==
    \/ Controller
    \/ LinkUp

SpecStill == InitStill /\ [][NextStill]_vars

(***************************************************************************)
(* The yaw speed of line 56 computed on its own, for rx on a grid of       *)
(* [-1, 1].                                                                *)
(***************************************************************************)
YawGridDen == 40

YawSpeedInputs == {[rx |-> Rat(i, YawGridDen)] : i \in -YawGridDen..YawGridDen}

InitYawSpeed ==
    /\ JoystickInit
    /\ ControllerInitWith(<<PitchLo, PitchHi>>)
    /\ arg \in YawSpeedInputs
    /\ ret = Unbound

CallYawSpeed ==
    /\ ret = Unbound
    /\ ret' = <<YawSpeed("rx" :> arg.rx)>>
    /\ UNCHANGED <<jvars, cvars, arg>>

SpecYawSpeed == InitYawSpeed /\ [][CallYawSpeed]_vars

(***************************************************************************)
(*                              Properties                                 *)
(***************************************************************************)
NAxes == Len(Capabilities)
\* state() returns the same on the boxes b1 and b2
SameState(b1, b2) == b1 = b2 \/ StateOf(b1, NAxes) = StateOf(b2, NAxes)
\* the positions of controller() inside the loop of line 51
TickPcs == {"sleep", "state", "send", "getParam", "setParam", "print"}
\* at "print" the log ends with the tick's getParam and setParam
EncoderRead == calls[Len(calls) - 1]
SpeedWritten == calls[Len(calls)]
EncoderValue == EncoderRead.value[1]
SpeedValue == SpeedWritten.value[1]
ComputedSpeed == computed_yaw_speed[1]

\* C1: from the entry of the loop on, and so at the end of every tick,
\* pitch_limits[0] <= command_pitch <= pitch_limits[1].
PitchWithinLimits ==
    cpc \in TickPcs =>
        /\ RLe(R(pitch_limits[1]), command_pitch[1])
        /\ RLe(command_pitch[1], R(pitch_limits[2]))

\* the clamp has held command_pitch at the upper limit of a proper band
PitchClampedAtUpper ==
    /\ cpc = "print"
    /\ pitch_limits[1] < pitch_limits[2]
    /\ command_pitch = <<R(pitch_limits[2])>>

\* C2: the yaw speed written by setParam(0x03, target 0) is not negative when
\* the encoder value getParam(0x2c, target 0) returned in the same tick is at or
\* below yaw_limits[0], and not positive when it is at or above yaw_limits[1].
YawNeverPushesPastLimit ==
    cpc = "print" =>
        /\ EncoderRead.op = "getParam" /\ EncoderRead.number = <<44>> /\ EncoderRead.target = <<0>>
        /\ SpeedWritten.op = "setParam" /\ SpeedWritten.number = <<3>> /\ SpeedWritten.target = <<0>>
        /\ EncoderValue <= yaw_limits[1] => SpeedValue >= 0
        /\ EncoderValue >= yaw_limits[2] => SpeedValue <= 0

\* the interlock has zeroed a positive speed at or beyond the upper limit
YawBrakedAtUpper ==
    /\ cpc = "print"
    /\ EncoderValue >= yaw_limits[2]
    /\ ComputedSpeed > 0
    /\ SpeedValue = 0

\* what a mapping returned by state() shows for an axis whose box is box
Shows(m, axis, box) ==
    IF box = NoneBox
    THEN AxisKey(axis) \notin DOMAIN m
    ELSE AxisKey(axis) \in DOMAIN m /\ m[AxisKey(axis)] = Normalise(axis, box[1])

\* C3: a state() call that ends while a synchronization marker is being
\* committed never holds the new value of one axis the marker changes and the
\* old value of another axis the marker changes.
SnapshotAtomic ==
    (cpc = "state" /\ sidx > NAxes /\ jpc = "commit") =>
        ~ \E A, B \in DictKeys(_pending) \cap DOMAIN axes :
            /\ A # B
            /\ published[A] # <<DictGet(_pending, A)>>
            /\ published[B] # <<DictGet(_pending, B)>>
            /\ Shows(s[1], A, <<DictGet(_pending, A)>>)
            /\ Shows(s[1], B, published[B])

\* C4: an absolute-axis event leaves the result of state() as it was; the
\* result of state() changes only while a synchronization marker is handled;
\* and when the marker is done, state() shows the latest pending value of every
\* axis that has one.
PendingUntilMarker ==
    [][ /\ _pending' # _pending => SameState(axes', axes)
        /\ ~ SameState(axes', axes) => jpc = "commit"
        /\ (jpc = "commit" /\ jpc' = "read") =>
              \A a \in DictKeys(_pending) :
                  Shows(StateOf(axes', NAxes), a, <<DictGet(_pending, a)>>)
      ]_vars

\* a published axis has a newer pending value that state() does not show yet
PendingNotYetVisible ==
    /\ jpc = "read"
    /\ \E a \in DictKeys(_pending) :
          /\ axes[a] # NoneBox
          /\ axes[a] # <<DictGet(_pending, a)>>
          /\ ~ Shows(StateOf(axes, NAxes), a, <<DictGet(_pending, a)>>)

\* C5: with the encoder value strictly between the yaw limits, or at or beyond
\* a limit with a computed speed that does not point beyond that limit, the
\* speed written is the computed speed.
YawPassesThrough ==
    cpc = "print" =>
        LET yaw == EncoderValue
        IN (\/ yaw_limits[1] < yaw /\ yaw < yaw_limits[2]
            \/ yaw <= yaw_limits[1] /\ ComputedSpeed >= 0
            \/ yaw >= yaw_limits[2] /\ ComputedSpeed <= 0)
           => SpeedValue = ComputedSpeed

\* encoder exactly at the upper limit, a negative computed speed, written as it is
YawPassedAtUpper ==
    /\ cpc = "print"
    /\ EncoderValue = yaw_limits[2]
    /\ ComputedSpeed < 0
    /\ SpeedValue = ComputedSpeed

\* C6: a transport call that raises ends controller(): the step of the failing
\* call leaves the loop, and from then on no transport call is logged and the
\* controller does not move.
TransportFailureIsFatal ==
    [][ /\ (calls' # calls /\ calls' # <<>> /\ calls'[Len(calls')].raised)
              => cpc' = "raised"
        /\ cpc = "raised" => (cpc' = "raised" /\ calls' = calls)
      ]_vars

\* getParam raised in a tick, after that tick's send
FailedInsideTick ==
    /\ cpc = "raised"
    /\ Len(calls) = 2
    /\ calls[1].op = "send" /\ ~ calls[1].raised
    /\ calls[2].op = "getParam" /\ calls[2].raised

\* C7: every value of a mapping state() returns is in [-1, 1], and an axis
\* whose box holds None is not in it.
InUnitRange(m) == \A k \in DOMAIN m : RLe(R(-1), m[k]) /\ RLe(m[k], R(1))
SnapshotInRange ==
    /\ InUnitRange(StateOf(axes, NAxes))
    /\ cpc = "state" => InUnitRange(s[1])
    /\ \A i \in 1..NAxes :
          axes[Capabilities[i]] = NoneBox =>
              /\ AxisKey(Capabilities[i]) \notin DOMAIN StateOf(axes, NAxes)
              /\ cpc = "state" => AxisKey(Capabilities[i]) \notin DOMAIN s[1]

\* state() is about to return the yaw stick at -1 and no entry for ABS_X
SnapshotAtEdge ==
    /\ cpc = "state" /\ sidx > NAxes
    /\ "rx" \in DOMAIN s[1] /\ s[1]["rx"] = R(-1)
    /\ "x" \notin DOMAIN s[1]

\* deadzone(v, width) is 0 for |v| <= width/2, is odd, and outside the dead
\* band is bounded by (|v| - width/2) / (1 - width), so it tends to 0 at both
\* boundaries
DeadzoneZeroOddContinuous ==
    ret # Unbound =>
        LET v == arg.v
            half == RDiv(arg.width, R(2))
        IN /\ RLe(RAbs(v), half) => ret[1] = R(0)
           /\ deadzone(RNeg(v), arg.width) = RNeg(ret[1])
           /\ RLt(half, RAbs(v)) =>
                 RLe(RAbs(ret[1]), RDiv(RSub(RAbs(v), half), RSub(R(1), arg.width)))

\* C8: for v in [-1, 1] and width in (0, 1), deadzone(v, width) is 0 for
\* |v| <= width/2, is odd, tends to 0 at both boundaries of the dead band, and
\* is 1 at v = 1 and -1 at v = -1.
DeadzoneContract ==
    /\ DeadzoneZeroOddContinuous
    /\ ret # Unbound =>
          /\ arg.v = R(1) => ret[1] = R(1)
          /\ arg.v = R(-1) => ret[1] = R(-1)

\* C9: with the pitch stick held up, command_pitch eventually is pitch_limits[1]
\* and is pitch_limits[1] from then on.
PitchSettlesAtUpper == <>[](command_pitch = <<R(pitch_limits[2])>>)

\* command_pitch is exactly the default upper limit at the end of a tick
PitchAtDefaultUpper ==
    /\ cpc = "print"
    /\ pitch_limits = <<PitchLo, PitchHi>>
    /\ command_pitch = <<R(PitchHi)>>

\* C10: _default_joystick() returns the qualifying device that comes first in
\* the sorted paths, and raises IOError when no device has ABS_X.
Qualifying == {fn \in 1..Len(arg.listed) : "ABS_X" \in arg.caps[fn]}
DefaultJoystickIsFirstSorted ==
    ret # Unbound =>
        IF Qualifying = {}
        THEN ret[1].raised = "IOError"
        ELSE /\ ret[1].raised = None
             /\ ret[1].device \in Qualifying
             /\ \A fn \in Qualifying : ret[1].device <= fn

\* three devices listed out of order, only the third has ABS_X, and it is returned
ThirdDeviceSelected ==
    /\ ret # Unbound
    /\ Len(arg.listed) = 3
    /\ arg.listed = <<3, 1, 2>>
    /\ Qualifying = {3}
    /\ ret[1].raised = None /\ ret[1].device = 3

\* no device has ABS_X and IOError is raised
NoDeviceFound ==
    /\ ret # Unbound
    /\ Len(arg.listed) = 2
    /\ Qualifying = {}
    /\ ret[1].raised = "IOError"

\* C11: an absolute-axis event whose code is not among the capabilities is
\* ignored: run() goes on, it never ends with an error.
ReaderSurvivesUnlistedAxis == jpc # "dead"

\* the transport calls of lines 32-44 and the positions of lines 32-49, in order
StartupCalls ==
    << Call("waitConnect", <<>>, <<>>, <<>>),
       Call("setVectorParam", <<99>>, <<>>, <<0, 1, 1>>),
       Call("setVectorParam", <<3>>, <<>>, <<0, 0, 0>>),
       Call("setMotors", <<>>, <<>>, <<1>>) >>
StartupPcs == <<"waitConnect", "setFollow", "zeroVelocity", "setMotors", "initPitch">>

\* C12: while the link is not up nothing but a failed waitConnect is in the
\* log; at every position of the startup the log holds exactly the startup
\* calls made so far, in order; the loop is entered with the four startup
\* calls made once each and command_pitch at the midpoint of pitch_limits; and
\* the startup is never run again.
StartupOnceInOrder ==
    /\ [](/\ ~connected =>
                \A i \in 1..Len(calls) : calls[i].op = "waitConnect" /\ calls[i].raised
          /\ \A k \in 1..Len(StartupPcs) :
                cpc = StartupPcs[k] => calls = SubSeq(StartupCalls, 1, k - 1))
    /\ [][ /\ (cpc = "initPitch" /\ cpc' = "sleep") =>
                 /\ calls' = StartupCalls
                 /\ RMul(R(2), command_pitch'[1]) = R(pitch_limits[1] + pitch_limits[2])
           /\ cpc \in TickPcs => cpc' \in TickPcs \cup {"raised"}
         ]_vars

\* the first tick begins: the startup calls are in the log, nothing else
FirstTickAfterStartup ==
    /\ cpc = "state"
    /\ calls = StartupCalls
    /\ command_pitch = <<R((pitch_limits[1] + pitch_limits[2]) \div 2)>>

\* the calls logged since the loop was entered or the last status line,
\* without the startup calls
TickCalls ==
    IF Len(calls) >= Len(StartupCalls) /\ SubSeq(calls, 1, Len(StartupCalls)) = StartupCalls
    THEN SubSeq(calls, Len(StartupCalls) + 1, Len(calls))
    ELSE calls
IsSend(c) == c.op = "send" /\ ~ c.raised
IsEncoderRead(c) ==
    c.op = "getParam" /\ c.number = <<44>> /\ c.target = <<0>> /\ ~ c.raised
IsSpeedWrite(c) ==
    c.op = "setParam" /\ c.number = <<3>> /\ c.target = <<0>> /\ ~ c.raised

\* C13: a tick makes one send, then one getParam(0x2c, target 0), then one
\* setParam(0x03, target 0), and nothing else; the interlock works on the
\* encoder value that the getParam of the same tick returned.
OneSendReadWritePerTick ==
    /\ cpc \in {"sleep", "state", "send"} => TickCalls = <<>>
    /\ cpc = "getParam" => Len(TickCalls) = 1 /\ IsSend(TickCalls[1])
    /\ cpc = "setParam" =>
          /\ Len(TickCalls) = 2 /\ IsSend(TickCalls[1]) /\ IsEncoderRead(TickCalls[2])
          /\ current_yaw = TickCalls[2].value
    /\ cpc = "print" =>
          /\ Len(TickCalls) = 3
          /\ IsSend(TickCalls[1]) /\ IsEncoderRead(TickCalls[2]) /\ IsSpeedWrite(TickCalls[3])
          /\ LET yaw == TickCalls[2].value[1]
                 braked == \/ yaw <= yaw_limits[1] /\ ComputedSpeed < 0
                           \/ yaw >= yaw_limits[2] /\ ComputedSpeed > 0
             IN TickCalls[3].value[1] = IF braked THEN 0 ELSE ComputedSpeed

\* a tick after the first has read an encoder value at the lower limit and
\* zeroed a negative speed
LaterTickBrakedAtLower ==
    /\ cpc = "print"
    /\ Len(calls) = 3
    /\ EncoderValue <= yaw_limits[1]
    /\ ComputedSpeed < 0
    /\ SpeedValue = 0

\* C14: a tick takes command_pitch to min(hi, max(lo, command_pitch +
\* 200 * deadzone(ry) / hz)); from the midpoint 1520 of (1000, 2040) with a
\* deadzone output of 1, after hz = 75 ticks command_pitch is 1720 and neither
\* max() nor min() has changed a sum.
PitchIntegratesAndClamps ==
    LET lo == R(arg.limits[1])
        hi == R(arg.limits[2])
        dz == deadzone(arg.ry, DefaultWidth)
        sum == RAdd(ret[1].prev, RDiv(RMul(R(200), dz), R(hz)))
    IN /\ ret[1].ticks > 0 =>
             ret[1].pitch = IF RLt(sum, lo) THEN lo ELSE IF RLt(hi, sum) THEN hi ELSE sum
       /\ (arg.limits = <<PitchLo, PitchHi>> /\ dz = R(1) /\ ret[1].ticks = hz) =>
             /\ ret[1].pitch = R((PitchLo + PitchHi) \div 2 + 200)
             /\ ~ ret[1].clamped

\* one second at a deadzone output of 1 has taken command_pitch from 1520 to 1720
OneSecondAtFullSpeed ==
    /\ arg.limits = <<PitchLo, PitchHi>>
    /\ deadzone(arg.ry, DefaultWidth) = R(1)
    /\ ret[1].ticks = hz
    /\ ret[1].pitch = R(1720)
    /\ ~ ret[1].clamped

\* a snapshot without the axis key, or with a value inside the dead band
Idle(c, key) == key \notin DOMAIN c \/ RLe(RAbs(c[key]), RDiv(DefaultWidth, R(2)))

\* C15: a tick whose snapshot has no 'ry' or has |ry| <= 0.15 leaves
\* command_pitch as it was, and nothing but line 62 changes command_pitch in
\* the loop; a tick whose snapshot has no 'rx' or has |rx| <= 0.15 computes
\* the yaw speed 0 and writes 0.
NeutralStickChangesNothing ==
    /\ [][ /\ (cpc = "state" /\ cpc' = "send") =>
                 /\ Idle(s[1], "ry") => command_pitch' = command_pitch
                 /\ Idle(s[1], "rx") => computed_yaw_speed' = <<0>>
           /\ (cpc \in TickPcs /\ cpc' \in TickPcs /\ ~ (cpc = "state" /\ cpc' = "send")) =>
                 command_pitch' = command_pitch
         ]_vars
    /\ [](cpc = "print" /\ ComputedSpeed = 0 => SpeedValue = 0)

\* a later tick has ended with both sticks inside the dead band, off centre:
\* command_pitch is still the midpoint and the speed written is 0
NeutralTickDone ==
    /\ cpc = "print"
    /\ Len(calls) = 3
    /\ axes["ABS_RX"] = <<-1>> /\ axes["ABS_RY"] = <<1>>
    /\ command_pitch = <<R((PitchLo + PitchHi) \div 2)>>
    /\ SpeedValue = 0

\* the computed yaw speed is not positive for rx > 0, not negative for rx < 0,
\* fits a signed 16-bit parameter, and is -37 for rx = 0.5
YawSpeedSignAndWidth ==
    ret # Unbound =>
        /\ RLt(R(0), arg.rx) => ret[1] <= 0
        /\ RLt(arg.rx, R(0)) => ret[1] >= 0
        /\ -32768 <= ret[1] /\ ret[1] <= 32767
        /\ arg.rx = Rat(1, 2) => ret[1] = -37

\* C16: for every rx in [-1, 1] the computed yaw speed is an integer in
\* [-300, 300], not positive for rx > 0 and not negative for rx < 0, fits a
\* signed 16-bit parameter, and is -37 for rx = 0.5.
YawSpeedContract ==
    /\ YawSpeedSignAndWidth
    /\ ret # Unbound => (-300 <= ret[1] /\ ret[1] <= 300)

\* The axes for which run() has handled a value-change event: line 134 is the
\* only statement that adds a key to self._pending, and nothing removes one.
Received == DictKeys(_pending)
\* the mapping m has an entry for the axis
Present(m, axis) == AxisKey(axis) \in DOMAIN m

\* C17: a mapping state() returns, or is building, has an entry only for an
\* axis that has received a value-change event, so an axis of the capabilities
\* that was never reported is absent; and an axis that state() shows is shown
\* by state() ever after.
OnlyReportedAxesPresent ==
    /\ [](LET m == StateOf(axes, NAxes)
          IN \A a \in DOMAIN axes :
                (Present(m, a) \/ (cpc = "state" /\ Present(s[1], a))) => a \in Received)
    /\ [][ axes' # axes =>
              \A a \in DOMAIN axes :
                  Present(StateOf(axes, NAxes), a) => Present(StateOf(axes', NAxes), a)
         ]_vars

\* state() is about to return the yaw axis only: the pitch axis has received
\* an event that is not published yet, ABS_X has received none
ReportedAxisOnlyInSnapshot ==
    /\ cpc = "state" /\ sidx > NAxes
    /\ DOMAIN s[1] = {"rx"}
    /\ Received = {"ABS_RX", "ABS_RY"}
    /\ axes["ABS_RY"] = NoneBox

\* C18: the step that hands a key event to onKey(), which prints it, changes
\* neither self._pending nor a box, so state() returns the same before and
\* after it, and it changes nothing of the control loop.
KeyEventLeavesAxesAlone ==
    [][ jout' # jout =>
            /\ jout' \in KeyCodes
            /\ _pending' = _pending
            /\ axes' = axes
            /\ StateOf(axes', NAxes) = StateOf(axes, NAxes)
            /\ cvars' = cvars
      ]_vars

\* onKey() has printed a key event while the yaw axis is published and the
\* pitch axis has a pending value that is not published
KeyPrintedWithAxesPending ==
    /\ jout \in KeyCodes
    /\ jpc = "read"
    /\ axes["ABS_RX"] # NoneBox
    /\ "ABS_RY" \in DictKeys(_pending) /\ axes["ABS_RY"] = NoneBox

\* C19: whatever the control loop is doing, the reader can take its next
\* step: an event or a marker when it is reading, the next box write when it is
\* committing; and a state() call can always take its next step.
ReaderNeverBlocked ==
    /\ jpc = "read" => (ENABLED NextAbsEvent /\ ENABLED NextKeyEvent /\ ENABLED SynEvent)
    /\ jpc = "commit" => ENABLED CommitStep
    /\ (cpc = "state" /\ sidx <= NAxes) => ENABLED StateRead
    /\ (cpc = "state" /\ sidx > NAxes) => ENABLED Compute

\* the reader has published a stick position while controller() is still
\* blocked in waitConnect()
PublishedWhileWaitingForLink ==
    /\ cpc = "waitConnect" /\ ~ connected
    /\ jpc = "read"
    /\ \E a \in DOMAIN axes : axes[a] # NoneBox /\ published[a] = axes[a]

\* C20: when run() has handled a synchronization marker, self._pending is
\* empty.
PendingEmptyAfterMarker ==
    [][ (jpc = "commit" /\ jpc' = "read") => _pending' = <<>> ]_vars

====
